---- MODULE Spec2Model ----
(***************************************************************************)
(* German Coach MVP: the JSON pipeline of agents.py (extraction and        *)
(* parsing of model output, plan normalisation and validation, the plan    *)
(* and grading requests).                                                   *)
(*                                                                         *)
(* Python values are tagged records: [t |-> "str", v |-> <<chars>>],       *)
(* [t |-> "num", v |-> n], [t |-> "null"], [t |-> "list", v |-> <<..>>],   *)
(* [t |-> "dict", v |-> [key |-> value, ...]].  A dict has a fixed set of  *)
(* keys in the model; a key the Python dict does not hold maps to Absent.  *)
(* A Python str is a sequence of one-character strings; the values of an   *)
(* enumeration that the code only compares ("correct", "content") are      *)
(* written as a single piece.                                              *)
(***************************************************************************)
EXTENDS Integers, Sequences, FiniteSets, TLC

VARIABLES
    npc,        \* normaliser run: "start", "normalized", "twice", "raised"
    nin,        \* the parsed plan handed to _normalize_plan
    nout,       \* outcome of _normalize_plan(nin)
    nout2,      \* outcome of _normalize_plan on the value it returned
    ppc,        \* parser run: "start", "parsed", "failed"
    raw,        \* the text handed to _safe_json_loads
    cand,       \* the candidate text it passes to json.loads
    loaded      \* what json.loads made of it

VARIABLES
    pc,             \* request: "idle", "call", "parse", "done", "error"
    op,             \* the request in progress ("none" when idle)
    blk,            \* the function of agents.py that is calling call_llm
    content,        \* the text call_llm returned to it
    calls,          \* calls of call_llm made by that function so far
    vocab_n,        \* get_daily_plan: vocab_n of the session length
    reading_block,  \* get_daily_plan: the reading block
    result,         \* the value the request returned
    err             \* the class of the error the request raised

VARIABLES
    vpc,        \* vocabulary validation run: "start", "returned", "raised"
    vin,        \* the arguments of _validate_vocab
    vout        \* its outcome

VARIABLES
    gpc,        \* grading run: "start", "returned", "raised"
    gin,        \* the grading function called and the items passed to it
    gout        \* its outcome

VARIABLES
    lpc,        \* call_llm: "start", "post", "sleep", "returned", "raised"
    config,     \* API_KEY, API_URL and MODEL of llm_client.py
    retries,    \* the retries argument
    attempt,    \* the loop variable
    posts,      \* calls of requests.post so far
    sleeps,     \* the arguments of time.sleep so far, in half seconds
    responses,  \* what each requests.post came to: "ok" or the error raised
    last_err,   \* last_err
    lout        \* the outcome of call_llm

VARIABLES
    session_plan,               \* st.session_state.plan (Absent: no such key)
    session_feedback,           \* st.session_state.feedback
    session_grammar_feedback,   \* st.session_state.grammar_feedback
    button,                     \* the button of the last run of app.py
    message,                    \* what its handler showed: "none", "error",
                                \* "warning" or "success"
    uncaught                    \* the class of the error that left the handler

normVars == <<npc, nin, nout, nout2>>
parseVars == <<ppc, raw, cand, loaded>>
reqVars == <<pc, op, blk, content, calls, vocab_n, reading_block, result, err>>
vocabVars == <<vpc, vin, vout>>
gradeVars == <<gpc, gin, gout>>
llmVars == <<lpc, config, retries, attempt, posts, sleeps, responses, last_err, lout>>
appVars == <<session_plan, session_feedback, session_grammar_feedback, button, message,
             uncaught>>
vars == <<npc, nin, nout, nout2, ppc, raw, cand, loaded,
          pc, op, blk, content, calls, vocab_n, reading_block, result, err,
          vpc, vin, vout, gpc, gin, gout,
          lpc, config, retries, attempt, posts, sleeps, responses, last_err, lout,
          session_plan, session_feedback, session_grammar_feedback, button, message,
          uncaught>>

\* what the steps of one part of the model leave alone
notNormVars == <<parseVars, reqVars, vocabVars, gradeVars, llmVars, appVars>>
notParseVars == <<normVars, reqVars, vocabVars, gradeVars, llmVars, appVars>>
notReqVars == <<normVars, parseVars, vocabVars, gradeVars, llmVars, appVars>>
notVocabVars == <<normVars, parseVars, reqVars, gradeVars, llmVars, appVars>>
notGradeVars == <<normVars, parseVars, reqVars, vocabVars, llmVars, appVars>>
notLLMVars == <<normVars, parseVars, reqVars, vocabVars, gradeVars, appVars>>
notAppVars == <<normVars, parseVars, reqVars, vocabVars, gradeVars, llmVars>>

-----------------------------------------------------------------------------
(* Bounds of the model                                                     *)

MaxExamples == 6
MaxExercises == 4
MaxNoise == 2
MaxResults == 3
MaxVocab == 3
MaxRetries == 3

-----------------------------------------------------------------------------
(* Python values                                                           *)

Absent == [t |-> "absent"]
JNull == [t |-> "null"]
JStr(s) == [t |-> "str", v |-> s]
JNum(n) == [t |-> "num", v |-> n]
JList(s) == [t |-> "list", v |-> s]
JDict(d) == [t |-> "dict", v |-> d]

IsStr(x) == x.t = "str"
IsList(x) == x.t = "list"
IsDict(x) == x.t = "dict"

Min(a, b) == IF a < b THEN a ELSE b
Max(a, b) == IF a > b THEN a ELSE b

\* str.isspace for the characters of the model
IsSpace(c) == c \in {" ", "\n", "\r", "\t"}

RECURSIVE LStrip(_)
LStrip(s) ==
    IF s # <<>> /\ IsSpace(Head(s)) THEN LStrip(Tail(s)) ELSE s

RECURSIVE RStrip(_)
RStrip(s) ==
    IF s # <<>> /\ IsSpace(s[Len(s)]) THEN RStrip(SubSeq(s, 1, Len(s) - 1)) ELSE s

\* str.strip()
Strip(s) == RStrip(LStrip(s))

\* sub in s, for two str
Contains(s, sub) ==
    \E i \in 1..(Len(s) - Len(sub) + 1) : SubSeq(s, i, i + Len(sub) - 1) = sub

Digit(n) == <<"0", "1", "2", "3", "4", "5", "6", "7", "8", "9">>[n + 1]

RECURSIVE NatToStr(_)
NatToStr(n) == IF n < 10 THEN <<Digit(n)>> ELSE Append(NatToStr(n \div 10), Digit(n % 10))

\* str(x) for a str, None or a non-negative int
Str(x) ==
    CASE x.t = "str" -> x.v
      [] x.t = "null" -> <<"N", "o", "n", "e">>
      [] x.t = "num" -> NatToStr(x.v)

\* d.get(k, default) for a dict d
Get(d, k, default) == IF d.v[k] = Absent THEN default ELSE d.v[k]

\* d.setdefault(k, val)
SetDefault(d, k, val) == IF d[k] = Absent THEN [d EXCEPT ![k] = val] ELSE d

-----------------------------------------------------------------------------
(* json.loads on the characters of the model: objects, strings and         *)
(* integers, JSON whitespace between tokens.  Each scanner returns the     *)
(* position after what it read, or 0 when the text is not valid there.     *)

IsDigit(c) == c \in {"0", "1", "2", "3", "4", "5", "6", "7", "8", "9"}

\* characters json.loads rejects inside a string literal (strict mode)
IsControl(c) == c \in {"\n", "\r", "\t"}

IsEscapable(c) == c \in {"\"", "\\", "/", "b", "f", "n", "r", "t"}

RECURSIVE SkipWs(_, _)
SkipWs(t, i) ==
    IF i <= Len(t) /\ t[i] \in {" ", "\t", "\n", "\r"} THEN SkipWs(t, i + 1) ELSE i

\* i is the position after the opening quote
RECURSIVE StringEnd(_, _)
StringEnd(t, i) ==
    IF i > Len(t) THEN 0
    ELSE IF t[i] = "\"" THEN i + 1
    ELSE IF t[i] = "\\"
         THEN IF i + 1 <= Len(t) /\ IsEscapable(t[i + 1]) THEN StringEnd(t, i + 2) ELSE 0
    ELSE IF IsControl(t[i]) THEN 0
    ELSE StringEnd(t, i + 1)

RECURSIVE DigitsEnd(_, _)
DigitsEnd(t, i) == IF i <= Len(t) /\ IsDigit(t[i]) THEN DigitsEnd(t, i + 1) ELSE i

NumberEnd(t, i) == IF t[i] = "0" THEN i + 1 ELSE DigitsEnd(t, i)

RECURSIVE ValueEnd(_, _)
RECURSIVE MembersEnd(_, _)

\* i is the position of the key's opening quote, if the text is valid
MembersEnd(t, i) ==
    IF i > Len(t) \/ t[i] # "\"" THEN 0
    ELSE LET k == StringEnd(t, i + 1)
             c == SkipWs(t, k)
         IN  IF k = 0 \/ c > Len(t) \/ t[c] # ":" THEN 0
             ELSE LET v == ValueEnd(t, SkipWs(t, c + 1))
                      e == SkipWs(t, v)
                  IN  IF v = 0 \/ e > Len(t) THEN 0
                      ELSE IF t[e] = "}" THEN e + 1
                      ELSE IF t[e] = "," THEN MembersEnd(t, SkipWs(t, e + 1))
                      ELSE 0

ValueEnd(t, i) ==
    IF i > Len(t) THEN 0
    ELSE IF t[i] = "\"" THEN StringEnd(t, i + 1)
    ELSE IF IsDigit(t[i]) THEN NumberEnd(t, i)
    ELSE IF t[i] = "{"
         THEN LET j == SkipWs(t, i + 1)
              IN  IF j <= Len(t) /\ t[j] = "}" THEN j + 1 ELSE MembersEnd(t, j)
    ELSE 0

\* json.loads(t): the type of the value parsed, or "JSONDecodeError"
json_loads(t) ==
    LET i == SkipWs(t, 1)
        e == ValueEnd(t, i)
    IN  IF e = 0 \/ SkipWs(t, e) # Len(t) + 1 THEN "JSONDecodeError"
        ELSE IF t[i] = "{" THEN "dict"
        ELSE IF t[i] = "\"" THEN "str"
        ELSE "int"

\* t.find(c): the first position of c, 0 when there is none (Python: -1)
Find(t, c) ==
    IF \E i \in 1..Len(t) : t[i] = c
    THEN CHOOSE i \in 1..Len(t) : t[i] = c /\ \A j \in 1..(i - 1) : t[j] # c
    ELSE 0

\* t.rfind(c): the last position of c, 0 when there is none (Python: -1)
RFind(t, c) ==
    IF \E i \in 1..Len(t) : t[i] = c
    THEN CHOOSE i \in 1..Len(t) : t[i] = c /\ \A j \in (i + 1)..Len(t) : t[j] # c
    ELSE 0

\* the text _safe_json_loads hands to json.loads
Candidate(text) ==
    LET t == Strip(text)
        start == Find(t, "{")
        end == RFind(t, "}")
    IN  IF start # 0 /\ end # 0 /\ end > start THEN SubSeq(t, start, end) ELSE t

_safe_json_loads(text) == json_loads(Candidate(text))

-----------------------------------------------------------------------------
(* String constants of agents.py                                           *)

PLACEHOLDER == <<"_", "_", "_", "_">>

FILLER_EXAMPLE ==
    <<"B", "e", "i", "s", "p", "i", "e", "l", ":", " ", "I", "c", "h", " ",
      "h", "a", "b", "e", " ", "h", "e", "u", "t", "e", " ", "Z", "e", "i",
      "t", ".">>

DEFAULT_INSTRUCTION ==
    <<"S", "e", "t", "z", "e", " ", "d", "a", "s", " ", "r", "i", "c", "h",
      "t", "i", "g", "e", " ", "W", "o", "r", "t", " ", "e", "i", "n", ".">>

DEFAULT_PROMPT ==
    <<"I", "c", "h", " ", "_", "_", "_", "_", " ", "h", "e", "u", "t", "e",
      " ", "z", "u", " ", "H", "a", "u", "s", "e", ".">>

DEFAULT_ANSWER == <<"b", "i", "n">>

\* the source's text has typographic quotes and an umlaut, written in ASCII here
DEFAULT_EXPLANATION ==
    <<"H", "i", "e", "r", " ", "s", "t", "e", "h", "t", " ", "d", "a", "s",
      " ", "V", "e", "r", "b", " ", "\"", "s", "e", "i", "n", "\"", " ", "i",
      "m", " ", "P", "r", "a", "e", "s", "e", "n", "s", ":", " ", "\"", "i",
      "c", "h", " ", "b", "i", "n", "\"", ".">>

DEFAULT_TOPIC == <<"G", "r", "a", "m", "m", "a", "t", "i", "k">>

-----------------------------------------------------------------------------
(* Dict shapes                                                             *)

EmptyPlan ==
    [reading_topic |-> Absent, reading_text |-> Absent, questions |-> Absent,
     vocabulary |-> Absent, grammar |-> Absent]

EmptyGrammar ==
    [topic |-> Absent, explanation |-> Absent, examples |-> Absent,
     exercises |-> Absent]

EmptyExercise ==
    [id |-> Absent, instruction |-> Absent, prompt |-> Absent, answer |-> Absent,
     answer_explanation |-> Absent]

\* the exercise appended by the padding loop
DefaultExercise(new_id) ==
    JDict([id |-> JNum(new_id),
           instruction |-> JStr(DEFAULT_INSTRUCTION),
           prompt |-> JStr(DEFAULT_PROMPT),
           answer |-> JStr(DEFAULT_ANSWER),
           answer_explanation |-> JStr(DEFAULT_EXPLANATION)])

-----------------------------------------------------------------------------
(* _normalize_plan                                                         *)

Raised(e) == [ok |-> FALSE, err |-> e]
Returned(x) == [ok |-> TRUE, val |-> x]

\* variant: entries that are not str are dropped instead of converted
CleanExamples_DropNonStr(list) ==
    LET strs == SelectSeq(list, IsStr)
        stripped == [i \in 1..Len(strs) |-> JStr(Strip(strs[i].v))]
    IN  SelectSeq(stripped, LAMBDA e : e.v # <<>>)

\* [str(x).strip() for x in grammar["examples"] if str(x).strip()]
CleanExamples(list) ==
    LET stripped == [i \in 1..Len(list) |-> JStr(Strip(Str(list[i])))]
    IN  SelectSeq(stripped, LAMBDA e : e.v # <<>>)

\* while len(examples) < 3: examples.append(filler)
RECURSIVE PadExamples(_)
PadExamples(examples) ==
    IF Len(examples) < 3
    THEN PadExamples(Append(examples, JStr(FILLER_EXAMPLE)))
    ELSE examples

\* if len(examples) > 5: examples = examples[:5]
TruncateExamples(examples) ==
    IF Len(examples) > 5 THEN SubSeq(examples, 1, 5) ELSE examples

\* [x for x in grammar["exercises"] if isinstance(x, dict)]
KeepDicts(list) == SelectSeq(list, IsDict)

\* variant: the last three are kept (exercises[-3:])
TruncateExercises_Last(exercises) ==
    SubSeq(exercises, Max(1, Len(exercises) - 2), Len(exercises))

\* exercises[:3]
TruncateExercises(exercises) == SubSeq(exercises, 1, Min(3, Len(exercises)))

\* while len(exercises) < 3: append the default exercise with id len + 1
RECURSIVE PadExercises(_)
PadExercises(exercises) ==
    IF Len(exercises) < 3
    THEN PadExercises(Append(exercises, DefaultExercise(Len(exercises) + 1)))
    ELSE exercises

\* "____" in ex["prompt"]: "contains", "lacks", or "TypeError" when the
\* prompt is not a container (None, a number)
PromptCheck(prompt) ==
    CASE prompt.t = "str" ->
             IF Contains(prompt.v, PLACEHOLDER) THEN "contains" ELSE "lacks"
      [] prompt.t = "list" ->
             IF \E i \in 1..Len(prompt.v) : prompt.v[i] = JStr(PLACEHOLDER)
             THEN "contains" ELSE "lacks"
      [] OTHER -> "TypeError"

\* variant: the placeholder is appended without testing for it
FixExercise_AlwaysAppend(ex, i) ==
    LET e1 == [ex.v EXCEPT !.id = JNum(i)]
        e2 == SetDefault(e1, "instruction", JStr(DEFAULT_INSTRUCTION))
        e3 == SetDefault(e2, "prompt", JStr(DEFAULT_PROMPT))
        check == PromptCheck(e3.prompt)
        Rest(e) == SetDefault(SetDefault(e, "answer", JStr(<<>>)),
                              "answer_explanation", JStr(<<>>))
    IN  CASE check = "TypeError" -> Raised("TypeError")
          [] ~IsStr(e3.prompt) -> Raised("AttributeError")
          [] OTHER -> Returned(JDict(Rest(
                 [e3 EXCEPT !.prompt = JStr(Strip(e3.prompt.v) \o <<" ">> \o PLACEHOLDER)])))

\* variant: a prompt without the placeholder is left as it is
FixExercise_KeepPrompt(ex, i) ==
    LET e1 == [ex.v EXCEPT !.id = JNum(i)]
        e2 == SetDefault(e1, "instruction", JStr(DEFAULT_INSTRUCTION))
        e3 == SetDefault(e2, "prompt", JStr(DEFAULT_PROMPT))
        check == PromptCheck(e3.prompt)
        Rest(e) == SetDefault(SetDefault(e, "answer", JStr(<<>>)),
                              "answer_explanation", JStr(<<>>))
    IN  CASE check = "TypeError" -> Raised("TypeError")
          [] OTHER -> Returned(JDict(Rest(e3)))

\* the body of the loop over enumerate(exercises, start=1)
FixExercise(ex, i) ==
    LET e1 == [ex.v EXCEPT !.id = JNum(i)]
        e2 == SetDefault(e1, "instruction", JStr(DEFAULT_INSTRUCTION))
        e3 == SetDefault(e2, "prompt", JStr(DEFAULT_PROMPT))
        check == PromptCheck(e3.prompt)
        Rest(e) == SetDefault(SetDefault(e, "answer", JStr(<<>>)),
                              "answer_explanation", JStr(<<>>))
    IN  CASE check = "TypeError" -> Raised("TypeError")
          [] check = "contains" -> Returned(JDict(Rest(e3)))
          [] check = "lacks" /\ ~IsStr(e3.prompt) -> Raised("AttributeError")
          [] OTHER -> Returned(JDict(Rest(
                 [e3 EXCEPT !.prompt = JStr(Strip(e3.prompt.v) \o <<" ">> \o PLACEHOLDER)])))

\* the whole loop: the first exercise that raises ends it
FixExercises(exercises) ==
    LET fixed == [i \in 1..Len(exercises) |-> FixExercise(exercises[i], i)]
        bad == {i \in 1..Len(exercises) : ~fixed[i].ok}
    IN  IF bad # {}
        THEN fixed[CHOOSE i \in bad : \A j \in bad : i <= j]
        ELSE Returned([i \in 1..Len(exercises) |-> fixed[i].val])

_normalize_plan(plan) ==
    LET p0 == IF IsDict(plan) THEN plan.v ELSE EmptyPlan
        p1 == SetDefault(SetDefault(p0, "reading_topic", JStr(<<>>)),
                         "reading_text", JStr(<<>>))
        p2 == IF IsList(p1.questions) THEN p1 ELSE [p1 EXCEPT !.questions = JList(<<>>)]
        p3 == IF IsList(p2.vocabulary) THEN p2 ELSE [p2 EXCEPT !.vocabulary = JList(<<>>)]
        g0 == IF IsDict(p3.grammar) THEN p3.grammar.v ELSE EmptyGrammar
        g1 == SetDefault(SetDefault(g0, "topic", JStr(DEFAULT_TOPIC)),
                         "explanation", JStr(<<>>))
        g2 == IF IsList(g1.examples) THEN g1 ELSE [g1 EXCEPT !.examples = JList(<<>>)]
        g3 == IF IsList(g2.exercises) THEN g2 ELSE [g2 EXCEPT !.exercises = JList(<<>>)]
        examples == TruncateExamples(PadExamples(CleanExamples(g3.examples.v)))
        exercises == FixExercises(PadExercises(TruncateExercises(KeepDicts(g3.exercises.v))))
    IN  IF ~exercises.ok THEN exercises
        ELSE Returned(JDict([p3 EXCEPT !.grammar =
                 JDict([g3 EXCEPT !.examples = JList(examples),
                                  !.exercises = JList(exercises.val)])]))

\* _validate_plan: "ok", or the message of the RuntimeError it raises (or the
\* class of the error a malformed plan makes it raise)
_validate_plan(plan) ==
    LET grammar == IF plan.v.grammar = Absent THEN JDict(EmptyGrammar) ELSE plan.v.grammar
        examples == Get(grammar, "examples", JList(<<>>))
        exercises == Get(grammar, "exercises", JList(<<>>))
        PromptOf(ex) == Get(ex, "prompt", JStr(<<>>))
    IN  IF ~IsDict(grammar) THEN "AttributeError"
        ELSE IF ~(IsList(examples) /\ 3 <= Len(examples.v) /\ Len(examples.v) <= 5)
        THEN "Invalid grammar.examples length"
        ELSE IF ~(IsList(exercises) /\ Len(exercises.v) = 3)
        THEN "Invalid grammar.exercises length"
        ELSE IF \E i \in 1..3 : ~IsDict(exercises.v[i])
        THEN "AttributeError"
        ELSE IF \E i \in 1..3 : PromptCheck(PromptOf(exercises.v[i])) = "TypeError"
        THEN "TypeError"
        ELSE IF \E i \in 1..3 : PromptCheck(PromptOf(exercises.v[i])) = "lacks"
        THEN "Exercise prompt missing ____"
        ELSE "ok"

-----------------------------------------------------------------------------
(* _word_in_text, _validate_vocab, _session_params                         *)

UPPER == <<"A", "B", "C", "D", "E", "F", "G", "H", "I", "J", "K", "L", "M",
           "N", "O", "P", "Q", "R", "S", "T", "U", "V", "W", "X", "Y", "Z">>
LOWER == <<"a", "b", "c", "d", "e", "f", "g", "h", "i", "j", "k", "l", "m",
           "n", "o", "p", "q", "r", "s", "t", "u", "v", "w", "x", "y", "z">>

LowerChar(c) ==
    IF \E i \in 1..26 : UPPER[i] = c THEN LOWER[CHOOSE i \in 1..26 : UPPER[i] = c] ELSE c

\* str.lower()
Lower(s) == [i \in 1..Len(s) |-> LowerChar(s[i])]

\* \w of the regular expression
IsWordChar(c) ==
    \/ IsDigit(c)
    \/ c = "_"
    \/ \E i \in 1..26 : c = UPPER[i] \/ c = LOWER[i]

\* \b at the position before t[p]
Boundary(t, p) ==
    LET W(q) == q \in 1..Len(t) /\ IsWordChar(t[q])
    IN  W(p - 1) # W(p)

\* x is falsy in Python (None, "", 0, [])
Falsy(x) ==
    x \in {Absent, JNull, JStr(<<>>), JNum(0), JList(<<>>)}

\* re.search(r"\b" + re.escape(w) + r"\b", text, re.IGNORECASE) is not None
_word_in_text(word, text) ==
    LET w == Strip(word)
    IN  /\ w # <<>>
        /\ \E i \in 1..(Len(text) - Len(w) + 1) :
               /\ Lower(SubSeq(text, i, i + Len(w) - 1)) = Lower(w)
               /\ Boundary(text, i)
               /\ Boundary(text, i + Len(w))

VocabOk == [ok |-> TRUE, err |-> "none", word |-> <<>>]
VocabError(e, w) == [ok |-> FALSE, err |-> e, word |-> w]

\* the loop with seen holding the words as written
RECURSIVE VocabLoop_CaseSensitive(_, _, _)
VocabLoop_CaseSensitive(items, seen, reading_text) ==
    IF items = <<>> THEN VocabOk
    ELSE LET item == Head(items)
             word == IF Falsy(item.v.word) THEN JStr(<<>>) ELSE item.v.word
             w == Strip(word.v)
         IN  IF ~IsDict(item) THEN VocabError("Vocabulary item not a dict", <<>>)
             ELSE IF ~IsStr(word) THEN VocabError("AttributeError", <<>>)
             ELSE IF w = <<>> THEN VocabError("Vocabulary word missing", <<>>)
             ELSE IF w \in seen THEN VocabError("Duplicate vocabulary word", <<>>)
             ELSE IF ~Falsy(reading_text) /\ ~IsStr(reading_text)
                  THEN VocabError("TypeError", <<>>)
             ELSE IF ~Falsy(reading_text) /\ ~_word_in_text(w, reading_text.v)
                  THEN VocabError("Vocabulary word not found in reading text", w)
             ELSE VocabLoop_CaseSensitive(Tail(items), seen \cup {w}, reading_text)

\* the loop over the items of vocab; seen holds the lower-cased words so far
RECURSIVE VocabLoop(_, _, _)
VocabLoop(items, seen, reading_text) ==
    IF items = <<>> THEN VocabOk
    ELSE LET item == Head(items)
             word == IF Falsy(item.v.word) THEN JStr(<<>>) ELSE item.v.word
             w == Strip(word.v)
             w_lower == Lower(w)
         IN  IF ~IsDict(item) THEN VocabError("Vocabulary item not a dict", <<>>)
             ELSE IF ~IsStr(word) THEN VocabError("AttributeError", <<>>)
             ELSE IF w = <<>> THEN VocabError("Vocabulary word missing", <<>>)
             ELSE IF w_lower \in seen THEN VocabError("Duplicate vocabulary word", <<>>)
             ELSE IF ~Falsy(reading_text) /\ ~IsStr(reading_text)
                  THEN VocabError("TypeError", <<>>)
             ELSE IF ~Falsy(reading_text) /\ ~_word_in_text(w, reading_text.v)
                  THEN VocabError("Vocabulary word not found in reading text", w)
             ELSE VocabLoop(Tail(items), seen \cup {w_lower}, reading_text)

_validate_vocab(vocab, reading_text, n_exact) ==
    IF ~IsList(vocab) THEN VocabError("Vocabulary is not a list", <<>>)
    ELSE IF Len(vocab.v) # n_exact THEN VocabError("Vocabulary length invalid", <<>>)
    ELSE VocabLoop(vocab.v, {}, reading_text)

_session_params(session_length) ==
    IF session_length = "10"
    THEN [word_min |-> 120, word_max |-> 160, vocab_n |-> 5]
    ELSE [word_min |-> 180, word_max |-> 240, vocab_n |-> 8]

\* plan.update(block): the keys block holds replace those of plan
Update(plan, block) ==
    [k \in DOMAIN plan |-> IF block.v[k] # Absent THEN block.v[k] ELSE plan[k]]

-----------------------------------------------------------------------------
(* Inputs of the normaliser: parsed model output                           *)

SeqsUpTo(S, n) == UNION {[1..k -> S] : k \in 0..n}

X_STR == JStr(<<" ", "x">>)
BLANK_STR == JStr(<<" ">>)

\* a str that needs trimming, a blank str, a number
ExampleValues == {X_STR, BLANK_STR, JNum(7)}

GoodExercise ==
    JDict([id |-> JNum(7), instruction |-> JStr(<<"i">>),
           prompt |-> JStr(PLACEHOLDER \o <<" ", "b">>),
           answer |-> JStr(<<"b">>), answer_explanation |-> JStr(<<"c">>)])
BareExercise == JDict([EmptyExercise EXCEPT !.prompt = JStr(<<" ", "a", " ">>)])
NoPromptExercise == JDict([EmptyExercise EXCEPT !.answer = JStr(<<"b">>)])
NullPromptExercise == JDict([EmptyExercise EXCEPT !.prompt = JNull])
ListPromptExercise == JDict([EmptyExercise EXCEPT !.prompt = JList(<<JStr(PLACEHOLDER)>>)])

ExerciseValues ==
    {JStr(<<"x">>), GoodExercise, BareExercise, NoPromptExercise,
     NullPromptExercise, ListPromptExercise}

AllExampleFields == {JList(s) : s \in SeqsUpTo(ExampleValues, MaxExamples)}
AllExerciseFields == {JList(s) : s \in SeqsUpTo(ExerciseValues, MaxExercises)}

FewExampleFields ==
    {Absent, JNull, JList(<<X_STR, JNum(7)>>),
     JList(<<X_STR, JNum(7), X_STR, BLANK_STR, X_STR, X_STR, JNum(7)>>)}
FewExerciseFields ==
    {Absent, JNull, JList(<<>>),
     JList(<<BareExercise, JStr(<<"x">>), GoodExercise, NoPromptExercise, BareExercise>>)}

\* every example list with a few exercise lists, and the converse
GrammarDicts ==
    {JDict([EmptyGrammar EXCEPT !.examples = f[1], !.exercises = f[2]]) :
        f \in (AllExampleFields \X FewExerciseFields)
               \cup (FewExampleFields \X AllExerciseFields)}

FewGrammars ==
    {Absent, JNull,
     JDict([topic |-> JStr(<<"t">>), explanation |-> JStr(<<"e">>),
            examples |-> JList(<<X_STR, JNum(7)>>),
            exercises |-> JList(<<BareExercise, GoodExercise>>)])}

ReadingPart ==
    [EmptyPlan EXCEPT !.reading_topic = JStr(<<"r">>),
                      !.reading_text = JStr(<<"a", " ", "b">>),
                      !.questions = JList(<<JStr(<<"q">>)>>),
                      !.vocabulary = JNull]

PlanInputs ==
    {JNull, JList(<<>>)}
    \cup {JDict([EmptyPlan EXCEPT !.grammar = g]) : g \in GrammarDicts \cup FewGrammars}
    \cup {JDict([ReadingPart EXCEPT !.grammar = g]) : g \in FewGrammars}

-----------------------------------------------------------------------------
(* The normaliser applied to parsed model output, and applied again to the *)
(* plan it returned                                                        *)

NoOutcome == Raised("none")

\* the parts of the model that a specification does not run
NormIdle == npc = "off" /\ nin = JNull /\ nout = NoOutcome /\ nout2 = NoOutcome
ParseIdle == ppc = "off" /\ raw = <<>> /\ cand = <<>> /\ loaded = "none"
ReqIdle ==
    /\ pc = "off" /\ op = "none" /\ blk = "none"
    /\ content = <<>> /\ calls = 0 /\ vocab_n = 0
    /\ reading_block = JNull /\ result = JNull /\ err = "none"
VocabIdle == vpc = "off" /\ vin = JNull /\ vout = JNull
GradeIdle == gpc = "off" /\ gin = JNull /\ gout = NoOutcome
LLMCallIdle ==
    /\ lpc = "off" /\ retries = 0 /\ attempt = 0 /\ posts = 0
    /\ sleeps = <<>> /\ responses = <<>> /\ last_err = "none" /\ lout = NoOutcome
LLMIdle == config = JNull /\ LLMCallIdle
AppIdle ==
    /\ session_plan = Absent /\ session_feedback = Absent
    /\ session_grammar_feedback = Absent
    /\ button = "none" /\ message = "none" /\ uncaught = "none"

InitNorm ==
    /\ npc = "start"
    /\ nin \in PlanInputs
    /\ nout = NoOutcome
    /\ nout2 = NoOutcome
    /\ ParseIdle /\ ReqIdle /\ VocabIdle /\ GradeIdle /\ LLMIdle /\ AppIdle

Normalize ==
    /\ npc = "start"
    /\ nout' = _normalize_plan(nin)
    /\ npc' = IF nout'.ok THEN "normalized" ELSE "raised"
    /\ UNCHANGED <<nin, nout2>>
    /\ UNCHANGED notNormVars

NormalizeAgain ==
    /\ npc = "normalized"
    /\ nout2' = _normalize_plan(nout.val)
    /\ npc' = "twice"
    /\ UNCHANGED <<nin, nout>>
    /\ UNCHANGED notNormVars

NextNorm == Normalize \/ NormalizeAgain

SpecNorm == InitNorm /\ [][NextNorm]_vars

-----------------------------------------------------------------------------
(* _safe_json_loads applied to model output                                *)

\* "~" stands for a fence marker (three backquotes)
NoiseChars == {" ", "\n", "~", "{", "}"}
Noise == SeqsUpTo(NoiseChars, MaxNoise)

Bodies ==
    {<<>>,
     <<"a">>,
     <<"\"", "a", "\"">>,
     <<"{", "}">>,
     <<"{", "\"", "a", "\"", ":", "1", "}">>,
     <<"{", "\"", "a", "\"", ":", "\n", "1", "}">>,
     <<"{", "\"", "a", "\"", ":", "\"", "b", "\n", "c", "\"", "}">>,
     <<"{", "\"", "a", "\"", ":", "\"", "b", "\r", "\"", ",", " ", "\"", "c", "\"", ":", "2", "}">>,
     <<"{", "\"", "a", "\"", ":", "\"", "b", "\\", "n", "c", "\"", "}">>,
     <<"{", "\"", "a", "\"", ":", "\"", "\\", "\"", "\n", "\"", "}">>,
     <<"{", "\"", "a", "\"", ":", "{", "\"", "b", "\"", ":", "1", "}", "}">>,
     <<"{", "\"", "a", "\"", " ", "1", "}">>,
     <<"{", "\n", "~", "\n", "}">>}

RawTexts == {n[1] \o b \o n[2] : n \in Noise \X Noise, b \in Bodies}

InitParse ==
    /\ ppc = "start"
    /\ raw \in RawTexts
    /\ cand = <<>>
    /\ loaded = "none"
    /\ NormIdle /\ ReqIdle /\ VocabIdle /\ GradeIdle /\ LLMIdle /\ AppIdle

\* _safe_json_loads(raw)
SafeJsonLoads ==
    /\ ppc = "start"
    /\ cand' = Candidate(raw)
    /\ loaded' = _safe_json_loads(raw)
    /\ ppc' = IF loaded' = "JSONDecodeError" THEN "failed" ELSE "parsed"
    /\ UNCHANGED raw
    /\ UNCHANGED notParseVars

NextParse == SafeJsonLoads

SpecParse == InitParse /\ [][NextParse]_vars

-----------------------------------------------------------------------------
(* _validate_vocab applied to a vocabulary, a reading text and a target    *)
(* length                                                                  *)

VOCAB_TEXT == <<"A", "b", " ", "c", "d", ",", " ", "e", ".">>

WordItem(word) == JDict([word |-> word, translation |-> JStr(<<"t">>), example |-> Absent])

\* items: words of the text in either case and with blanks around, part of
\* a word, a word with its comma, a word the text lacks, no word, a number,
\* and an item that is not a dict
VocabItems ==
    {WordItem(JStr(<<"a", "b">>)), WordItem(JStr(<<"A", "B">>)),
     WordItem(JStr(<<" ", "c", "d", " ">>)), WordItem(JStr(<<"c">>)),
     WordItem(JStr(<<"c", "d", ",">>)), WordItem(JStr(<<"z">>)),
     WordItem(JStr(<<" ">>)), WordItem(Absent), WordItem(JNum(7)),
     JStr(<<"e">>)}

VocabArgs ==
    {JNull, JStr(<<"e", "e">>)} \cup {JList(x) : x \in SeqsUpTo(VocabItems, MaxVocab)}

TextArgs == {JStr(VOCAB_TEXT), JStr(<<>>), JStr(<<" ">>), JNull, JNum(7)}

InitVocab ==
    /\ vpc = "start"
    /\ vin \in [vocab : VocabArgs, reading_text : TextArgs, n_exact : 1..MaxVocab]
    /\ vout = JNull
    /\ NormIdle /\ ParseIdle /\ ReqIdle /\ GradeIdle /\ LLMIdle /\ AppIdle

\* _validate_vocab(vocab, reading_text, n_exact)
ValidateVocab ==
    /\ vpc = "start"
    /\ vout' = _validate_vocab(vin.vocab, vin.reading_text, vin.n_exact)
    /\ vpc' = IF vout'.ok THEN "returned" ELSE "raised"
    /\ UNCHANGED vin
    /\ UNCHANGED notVocabVars

NextVocab == ValidateVocab

SpecVocab == InitVocab /\ [][NextVocab]_vars

-----------------------------------------------------------------------------
(* Normalisation of the grader's output in check_answers and check_grammar *)

EmptyResult ==
    [id |-> Absent, verdict |-> Absent, ideal_answer |-> Absent, tip |-> Absent,
     correct_answer |-> Absent, explanation |-> Absent, reason |-> Absent]

\* by_id.get(i, {}): the last dict of results whose id is i
ById(results, i) ==
    LET idx == {j \in 1..Len(results) :
                   IsDict(results[j]) /\ results[j].v.id = JNum(i)}
    IN  IF idx = {} THEN JDict(EmptyResult)
        ELSE results[CHOOSE j \in idx : \A k \in idx : k <= j]

\* check_answers, after the parse
NormalizeAnswers(data) ==
    LET results == Get(data, "results", JList(<<>>))
        Item(i) ==
            LET r == ById(results.v, i)
            IN  JDict([id |-> JNum(i),
                       verdict |-> Get(r, "verdict", JStr(<<"incorrect">>)),
                       ideal_answer |-> Get(r, "ideal_answer", JStr(<<>>)),
                       tip |-> Get(r, "tip", JStr(<<>>)),
                       reason |-> Get(r, "reason", JStr(<<"content">>))])
    IN  IF ~IsList(results) THEN Raised("TypeError")
        ELSE Returned(JDict(SetDefault(
                 [data.v EXCEPT !.results = JList([i \in 1..3 |-> Item(i)])],
                 "overall_tip", JStr(<<>>))))

\* check_grammar, after the parse
NormalizeGrammarResults(data) ==
    LET results == Get(data, "results", JList(<<>>))
        Item(i) ==
            LET r == ById(results.v, i)
            IN  JDict([id |-> JNum(i),
                       verdict |-> Get(r, "verdict", JStr(<<"incorrect">>)),
                       correct_answer |-> Get(r, "correct_answer", JStr(<<>>)),
                       explanation |-> Get(r, "explanation", JStr(<<>>)),
                       reason |-> Get(r, "reason", JStr(<<"content">>))])
    IN  IF ~IsList(results) THEN Raised("TypeError")
        ELSE Returned(JDict(SetDefault(
                 [data.v EXCEPT !.results = JList([i \in 1..3 |-> Item(i)])],
                 "overall_tip", JStr(<<>>))))

-----------------------------------------------------------------------------
(* What the model may answer: texts, and the objects the texts that parse  *)
(* stand for                                                               *)

READING_TEXT ==
    <<"A", " ", "b", " ", "c", " ", "d", " ", "e", " ", "f", " ", "g", " ", "h", ".">>

VocabItem(w) ==
    JDict([word |-> JStr(w), translation |-> JStr(<<"t">>), example |-> JStr(<<"e">>)])

WORDS == <<"a", "b", "c", "d", "e", "f", "g", "h">>

\* n distinct words of READING_TEXT
GoodVocab(n) == JList([i \in 1..n |-> VocabItem(<<WORDS[i]>>)])
DuplicateVocab == JList([i \in 1..5 |-> VocabItem(<<WORDS[IF i = 5 THEN 1 ELSE i]>>)])
ForeignVocab == JList([i \in 1..5 |-> VocabItem(IF i = 5 THEN <<"z">> ELSE <<WORDS[i]>>)])

VocabFields ==
    {Absent, JList(<<>>), GoodVocab(5), GoodVocab(8), DuplicateVocab, ForeignVocab}

Question(i) == JDict([id |-> JNum(i), question |-> JStr(<<"q">>)])

QuestionFields ==
    {Absent,
     JList(<<Question(1), Question(2), Question(3)>>),
     JList(<<Question(1), Question(2)>>),
     JList(<<Question(2), Question(1), Question(3), Question(4)>>)}

ReadingBlocks ==
    {JDict([EmptyPlan EXCEPT !.reading_topic = JStr(<<"r">>), !.reading_text = t,
                             !.questions = q, !.vocabulary = v]) :
        t \in {JStr(READING_TEXT), Absent}, q \in QuestionFields, v \in VocabFields}

VocabBlocks ==
    {JDict([vocabulary |-> v]) :
        v \in {Absent, GoodVocab(5), GoodVocab(8), DuplicateVocab}}

RequestExampleFields == {JList(x) : x \in SeqsUpTo({X_STR, BLANK_STR}, MaxExamples)}
RequestExerciseFields ==
    {JList(x) : x \in SeqsUpTo({BareExercise, NullPromptExercise, JStr(<<"x">>)},
                               MaxExercises)}

GrammarBlocks ==
    {JDict([EmptyPlan EXCEPT !.grammar = g]) : g \in FewGrammars}
    \cup {JDict([EmptyPlan EXCEPT !.grammar =
                    JDict([EmptyGrammar EXCEPT !.examples = f[1], !.exercises = f[2]])]) :
            f \in (RequestExampleFields \X {Absent, JList(<<GoodExercise, ListPromptExercise>>)})
                  \cup ({Absent, JList(<<X_STR, JNum(7)>>)} \X RequestExerciseFields)}

ExerciseBlocks == {JDict([exercises |-> x]) : x \in FewExerciseFields}

GraderResult(i, mark) ==
    JDict([EmptyResult EXCEPT !.id = JNum(i), !.verdict = JStr(<<mark>>),
                              !.tip = JStr(<<"t">>), !.explanation = JStr(<<"e">>)])

ResultValues ==
    {JStr(<<"x">>), JDict(EmptyResult), GraderResult(1, "correct"),
     GraderResult(1, "partly"), GraderResult(2, "correct"),
     GraderResult(3, "incorrect"), GraderResult(4, "correct")}

GraderOutputs ==
    {JDict([results |-> r, overall_tip |-> o]) :
        r \in {Absent, JNull} \cup {JList(x) : x \in SeqsUpTo(ResultValues, MaxResults)},
        o \in {Absent, JStr(<<"o">>)}}

\* an object between noise, an object with a raw newline in a string, text
\* without an object, a JSON string
Contents ==
    {<<"~", "\n", "{", "\"", "a", "\"", ":", "1", "}", "\n", "~">>,
     <<"{", "\"", "a", "\"", ":", "\"", "b", "\n", "c", "\"", "}">>,
     <<"a">>,
     <<"\"", "a", "\"">>}

ContentFunctions ==
    {"get_reading_block", "get_vocab_block", "get_grammar_block",
     "get_grammar_exercises_only", "check_answers", "check_grammar"}

Ops == ContentFunctions \cup {"get_daily_plan"}

\* the object the parsed text of a content function stands for
Payloads(f) ==
    CASE f = "get_reading_block" -> ReadingBlocks
      [] f = "get_vocab_block" -> VocabBlocks
      [] f = "get_grammar_block" -> GrammarBlocks
      [] f = "get_grammar_exercises_only" -> ExerciseBlocks
      [] OTHER -> GraderOutputs

-----------------------------------------------------------------------------
(* Requests: get_daily_plan and the content functions called on their own  *)

Init ==
    /\ pc = "idle" /\ op = "none" /\ blk = "none"
    /\ content = <<>> /\ calls = 0 /\ vocab_n = 0
    /\ reading_block = JNull /\ result = JNull /\ err = "none"
    /\ NormIdle /\ ParseIdle /\ VocabIdle /\ GradeIdle /\ LLMIdle /\ AppIdle

\* a content function is called on its own
StartContent ==
    /\ pc = "idle"
    /\ \E f \in ContentFunctions : op' = f /\ blk' = f
    /\ pc' = "call"
    /\ calls' = 0
    /\ UNCHANGED <<content, vocab_n, reading_block, result, err>>
    /\ UNCHANGED notReqVars

\* get_daily_plan up to its call of get_reading_block
StartDailyPlan ==
    /\ pc = "idle"
    /\ \E session_length \in {"10", "20"} :
           vocab_n' = _session_params(session_length).vocab_n
    /\ op' = "get_daily_plan"
    /\ blk' = "get_reading_block"
    /\ pc' = "call"
    /\ calls' = 0
    /\ UNCHANGED <<content, reading_block, result, err>>
    /\ UNCHANGED notReqVars

\* the content function builds its messages and call_llm returns a text
CallLLM ==
    /\ pc = "call"
    /\ content' \in Contents
    /\ calls' = calls + 1
    /\ pc' = "parse"
    /\ UNCHANGED <<op, blk, vocab_n, reading_block, result, err>>
    /\ UNCHANGED notReqVars

Fail(e) ==
    /\ pc' = "error"
    /\ err' = e
    /\ content' = <<>>
    /\ UNCHANGED <<op, blk, calls, vocab_n, reading_block, result>>

\* json.loads raises in _safe_json_loads: nothing catches it in agents.py
ParseFails ==
    /\ pc = "parse"
    /\ _safe_json_loads(content) = "JSONDecodeError"
    /\ Fail("JSONDecodeError")
    /\ UNCHANGED notReqVars

\* the text is JSON but not an object: a get_ function returns the value,
\* the callers that use .get on it raise
ParseNotDict ==
    /\ pc = "parse"
    /\ _safe_json_loads(content) \in {"str", "int"}
    /\ IF op \in {"get_daily_plan", "check_answers", "check_grammar"}
       THEN Fail("AttributeError")
       ELSE /\ result' = JStr(<<"a">>)
            /\ pc' = "done"
            /\ content' = <<>>
            /\ UNCHANGED <<op, blk, calls, vocab_n, reading_block, err>>
    /\ UNCHANGED notReqVars

\* a get_ function called on its own returns the parsed object
ReturnBlock ==
    /\ pc = "parse"
    /\ op = blk
    /\ op \notin {"check_answers", "check_grammar"}
    /\ _safe_json_loads(content) = "dict"
    /\ result' \in Payloads(blk)
    /\ pc' = "done"
    /\ content' = <<>>
    /\ UNCHANGED <<op, blk, calls, vocab_n, reading_block, err>>
    /\ UNCHANGED notReqVars

\* check_answers and check_grammar from the parse to the return
ReturnGrade ==
    /\ pc = "parse"
    /\ op \in {"check_answers", "check_grammar"}
    /\ _safe_json_loads(content) = "dict"
    /\ \E data \in Payloads(blk) :
          LET n == IF op = "check_answers" THEN NormalizeAnswers(data)
                   ELSE NormalizeGrammarResults(data)
          IN  IF n.ok
              THEN /\ result' = n.val
                   /\ pc' = "done"
                   /\ content' = <<>>
                   /\ UNCHANGED <<op, blk, calls, vocab_n, reading_block, err>>
              ELSE Fail(n.err)
    /\ UNCHANGED notReqVars

\* the step with get_vocab_block called whatever _validate_vocab does
DailyPlanReading_AlwaysVocab ==
    /\ pc = "parse"
    /\ op = "get_daily_plan"
    /\ blk = "get_reading_block"
    /\ _safe_json_loads(content) = "dict"
    /\ reading_block' \in Payloads(blk)
    /\ blk' = "get_vocab_block"
    /\ pc' = "call"
    /\ calls' = 0
    /\ content' = <<>>
    /\ UNCHANGED <<op, vocab_n, result, err>>
    /\ UNCHANGED notReqVars

\* get_daily_plan from the return of get_reading_block to its next call:
\* get_vocab_block when _validate_vocab raises, get_grammar_block otherwise
DailyPlanReading ==
    /\ pc = "parse"
    /\ op = "get_daily_plan"
    /\ blk = "get_reading_block"
    /\ _safe_json_loads(content) = "dict"
    /\ \E rb \in Payloads(blk) :
          LET reading_text == Get(rb, "reading_text", JStr(<<>>))
              vocab == Get(rb, "vocabulary", JList(<<>>))
          IN  /\ reading_block' = rb
              /\ blk' = IF _validate_vocab(vocab, reading_text, vocab_n).ok
                        THEN "get_grammar_block" ELSE "get_vocab_block"
    /\ pc' = "call"
    /\ calls' = 0
    /\ content' = <<>>
    /\ UNCHANGED <<op, vocab_n, result, err>>
    /\ UNCHANGED notReqVars

\* get_daily_plan from the return of get_vocab_block to its next call
DailyPlanVocab ==
    /\ pc = "parse"
    /\ op = "get_daily_plan"
    /\ blk = "get_vocab_block"
    /\ _safe_json_loads(content) = "dict"
    /\ \E vb \in Payloads(blk) :
          reading_block' =
              JDict([reading_block.v EXCEPT !.vocabulary = Get(vb, "vocabulary", JList(<<>>))])
    /\ blk' = "get_grammar_block"
    /\ pc' = "call"
    /\ calls' = 0
    /\ content' = <<>>
    /\ UNCHANGED <<op, vocab_n, result, err>>
    /\ UNCHANGED notReqVars

\* get_daily_plan from the return of get_grammar_block to its own return
DailyPlanGrammar ==
    /\ pc = "parse"
    /\ op = "get_daily_plan"
    /\ blk = "get_grammar_block"
    /\ _safe_json_loads(content) = "dict"
    /\ \E grammar_block \in Payloads(blk) :
          LET plan == Update(Update(EmptyPlan, reading_block), grammar_block)
              n == _normalize_plan(JDict(plan))
          IN  IF ~n.ok THEN Fail(n.err)
              ELSE IF _validate_plan(n.val) # "ok" THEN Fail("RuntimeError")
              ELSE /\ result' = n.val
                   /\ pc' = "done"
                   /\ content' = <<>>
                   /\ UNCHANGED <<op, blk, calls, vocab_n, reading_block, err>>
    /\ UNCHANGED notReqVars

\* the caller has the value or the error; the next request starts afresh
Finish ==
    /\ pc \in {"done", "error"}
    /\ pc' = "idle" /\ op' = "none" /\ blk' = "none"
    /\ content' = <<>> /\ calls' = 0 /\ vocab_n' = 0
    /\ reading_block' = JNull /\ result' = JNull /\ err' = "none"
    /\ UNCHANGED notReqVars

Next ==
    \/ StartContent
    \/ StartDailyPlan
    \/ CallLLM
    \/ ParseFails
    \/ ParseNotDict
    \/ ReturnBlock
    \/ ReturnGrade
    \/ DailyPlanReading
    \/ DailyPlanVocab
    \/ DailyPlanGrammar
    \/ Finish

Spec == Init /\ [][Next]_vars

-----------------------------------------------------------------------------
(* check_answers and check_grammar called with the questions or exercises  *)
(* of a plan                                                               *)

NormalizedExercises == JList(FixExercises(PadExercises(<<>>)).val)

\* the questions of a plan: get_daily_plan returns them as the model sent
\* them (three, fewer, more, one without an id, one that is not a dict)
GradedQuestions ==
    {JNull, JList(<<>>),
     JList(<<Question(1), Question(2), Question(3)>>),
     JList(<<Question(1), Question(2)>>),
     JList(<<Question(2), Question(1), Question(3), Question(4)>>),
     JList(<<Question(1), JDict([id |-> Absent, question |-> JStr(<<"q">>)])>>),
     JList(<<JStr(<<"q">>)>>)}

\* the exercises of a plan: normalised by get_daily_plan, or as
\* get_grammar_exercises_only returned them
GradedExercises ==
    {JNull, NormalizedExercises, JList(<<GoodExercise>>),
     JList(<<GoodExercise, BareExercise>>), JList(<<JStr(<<"x">>)>>)}

GradeInputs ==
    [f : {"check_answers"}, items : GradedQuestions]
    \cup [f : {"check_grammar"}, items : GradedExercises]

InitGrade ==
    /\ gpc = "start"
    /\ gin \in GradeInputs
    /\ gout = NoOutcome
    /\ NormIdle /\ ParseIdle /\ ReqIdle /\ VocabIdle /\ LLMIdle /\ AppIdle

\* the loop that writes the items into the prompt: item.get on each
PromptItems(items) ==
    LET list == IF Falsy(items) THEN <<>> ELSE items.v
    IN  IF \A i \in 1..Len(list) : IsDict(list[i]) THEN "ok" ELSE "AttributeError"

\* one grading call from the prompt to the return: the text call_llm
\* returned, its parse, and the normalisation of the parsed results
Grade(f) ==
    /\ IF PromptItems(gin.items) # "ok"
       THEN gout' = Raised(PromptItems(gin.items))
       ELSE \E text \in Contents :
               LET parsed == _safe_json_loads(text)
               IN  \/ /\ parsed = "JSONDecodeError"
                      /\ gout' = Raised("JSONDecodeError")
                   \/ /\ parsed \in {"str", "int"}
                      /\ gout' = Raised("AttributeError")
                   \/ /\ parsed = "dict"
                      /\ \E data \in GraderOutputs :
                             gout' = IF f = "check_answers"
                                     THEN NormalizeAnswers(data)
                                     ELSE NormalizeGrammarResults(data)
    /\ gpc' = IF gout'.ok THEN "returned" ELSE "raised"
    /\ UNCHANGED gin
    /\ UNCHANGED notGradeVars

check_answers ==
    /\ gpc = "start"
    /\ gin.f = "check_answers"
    /\ Grade("check_answers")

check_grammar ==
    /\ gpc = "start"
    /\ gin.f = "check_grammar"
    /\ Grade("check_grammar")

NextGrade == check_answers \/ check_grammar

SpecGrade == InitGrade /\ [][NextGrade]_vars

-----------------------------------------------------------------------------
(* llm_client.py: _validate_config and call_llm                            *)

HTTP == <<"h", "t", "t", "p">>

\* s.startswith(prefix)
StartsWith(s, prefix) ==
    Len(s) >= Len(prefix) /\ SubSeq(s, 1, Len(prefix)) = prefix

\* the settings: unset, empty, or a text
Settings(texts) == {JNull, JStr(<<>>)} \cup {JStr(t) : t \in texts}

\* endpoint texts: an http and an https URL, a URL of another scheme, a host
\* without a scheme, and a host without a scheme whose name starts with http
URLS ==
    {<<"h", "t", "t", "p", ":", "/", "/", "a">>,
     <<"h", "t", "t", "p", "s", ":", "/", "/", "a">>,
     <<"f", "t", "p", ":", "/", "/", "a">>,
     <<"a", ".", "i", "o">>,
     <<"h", "t", "t", "p", "b", "i", "n", ".", "i", "o">>}

Configs ==
    [API_KEY : Settings({<<"k">>}), API_URL : Settings(URLS), MODEL : Settings({<<"m">>})]

\* _validate_config: "ok", or the class of the error it raises
_validate_config(c) ==
    IF Falsy(c.API_KEY) \/ Falsy(c.API_URL) \/ Falsy(c.MODEL) THEN "LLMConfigError"
    ELSE IF ~StartsWith(c.API_URL.v, HTTP) THEN "LLMConfigError"
    ELSE "ok"

\* the errors one attempt can raise: the transport, the status of the
\* response (raise_for_status), the envelope (data["choices"][0]...)
AttemptErrors == {"ConnectionError", "HTTPError", "KeyError"}

\* the content of a response: a text, or null
LLMContents == {JStr(<<"c">>), JNull}

\* requests.post refuses a URL without a scheme before it sends anything
UrlHasScheme(url) == Contains(url, <<":", "/", "/">>)

\* time.sleep(0.5 * (attempt + 1)), in half seconds
Backoff_Constant(n) == 1

Backoff(n) == n + 1

InitLLM ==
    /\ lpc = "start"
    /\ config \in Configs
    /\ retries \in 0..MaxRetries
    /\ attempt = 0 /\ posts = 0 /\ sleeps = <<>> /\ responses = <<>>
    /\ last_err = "none" /\ lout = NoOutcome
    /\ NormIdle /\ ParseIdle /\ ReqIdle /\ VocabIdle /\ GradeIdle /\ AppIdle

\* call_llm up to the loop: _validate_config raises or the loop starts
ValidateConfig ==
    /\ lpc = "start"
    /\ IF _validate_config(config) = "ok"
       THEN /\ lpc' = "post"
            /\ lout' = lout
       ELSE /\ lpc' = "raised"
            /\ lout' = Raised(_validate_config(config))
    /\ attempt' = 0
    /\ UNCHANGED <<config, retries, posts, sleeps, responses, last_err>>
    /\ UNCHANGED notLLMVars

\* an attempt whose response holds the content: call_llm returns it
PostReturns ==
    /\ lpc = "post"
    /\ UrlHasScheme(config.API_URL.v)
    /\ posts' = posts + 1
    /\ responses' = Append(responses, "ok")
    /\ \E c \in LLMContents : lout' = Returned(c)
    /\ lpc' = "returned"
    /\ UNCHANGED <<config, retries, attempt, sleeps, last_err>>
    /\ UNCHANGED notLLMVars

\* an attempt that raises: the except clause keeps the error, and either
\* another attempt follows a sleep or the loop ends and the error is raised
PostRaises ==
    /\ lpc = "post"
    /\ posts' = posts + 1
    /\ \E e \in IF UrlHasScheme(config.API_URL.v) THEN AttemptErrors
                 ELSE {"MissingSchema"} :
           /\ responses' = Append(responses, e)
           /\ last_err' = e
           /\ IF attempt < retries
              THEN /\ lpc' = "sleep"
                   /\ lout' = lout
              ELSE /\ lpc' = "raised"
                   /\ lout' = Raised(e)
    /\ UNCHANGED <<config, retries, attempt, sleeps>>
    /\ UNCHANGED notLLMVars

\* time.sleep and continue
Sleep ==
    /\ lpc = "sleep"
    /\ sleeps' = Append(sleeps, Backoff(attempt))
    /\ attempt' = attempt + 1
    /\ lpc' = "post"
    /\ UNCHANGED <<config, retries, posts, responses, last_err, lout>>
    /\ UNCHANGED notLLMVars

NextLLM == ValidateConfig \/ PostReturns \/ PostRaises \/ Sleep

SpecLLM == InitLLM /\ [][NextLLM]_vars

\* call_llm is straight-line code around a loop: each step is taken
FairSpecLLM == SpecLLM /\ WF_vars(NextLLM)

-----------------------------------------------------------------------------
(* app.py: the handlers of the buttons of "Today's session", each with the *)
(* calls of agents.py it makes                                             *)

\* except RuntimeError catches RuntimeError and LLMConfigError(RuntimeError)
IsRuntimeError(e) == e \in {"RuntimeError", "LLMConfigError"}

\* the settings of a session: complete, without a key, with an endpoint
\* that has no scheme
AppConfigs ==
    {c \in Configs :
        /\ c.MODEL = JStr(<<"m">>)
        /\ c.API_KEY \in {JNull, JStr(<<"k">>)}
        /\ c.API_URL \in {JStr(<<"h", "t", "t", "p", ":", "/", "/", "a">>),
                          JStr(<<"h", "t", "t", "p", "b", "i", "n", ".", "i", "o">>)}}

\* what call_llm comes to under settings c: the error it raises or the text
\* it returns
CallLLMOutcomes(c) ==
    IF _validate_config(c) # "ok" THEN {Raised("LLMConfigError")}
    ELSE IF ~UrlHasScheme(c.API_URL.v) THEN {Raised("MissingSchema")}
    ELSE {Raised(e) : e \in AttemptErrors} \cup {Returned(JStr(t)) : t \in Contents}

\* reading blocks: as asked for, with two questions and a repeated word,
\* without a reading text
AppReadingBlocks ==
    {b \in ReadingBlocks :
        \/ /\ b.v.reading_text # Absent
           /\ b.v.questions = JList(<<Question(1), Question(2), Question(3)>>)
           /\ b.v.vocabulary = GoodVocab(5)
        \/ /\ b.v.reading_text # Absent
           /\ b.v.questions = JList(<<Question(1), Question(2)>>)
           /\ b.v.vocabulary = DuplicateVocab
        \/ /\ b.v.reading_text = Absent
           /\ b.v.questions = JList(<<Question(1), Question(2), Question(3)>>)
           /\ b.v.vocabulary = GoodVocab(5)}

AppVocabBlocks == {b \in VocabBlocks : b.v.vocabulary \in {Absent, GoodVocab(5)}}

AppGrammar(examples, exercises) ==
    JDict([EmptyPlan EXCEPT !.grammar =
        JDict([topic |-> JStr(<<"t">>), explanation |-> Absent,
               examples |-> JList(examples), exercises |-> JList(exercises)])])

AppGrammarBlocks ==
    {AppGrammar(<<X_STR, X_STR, X_STR>>, <<GoodExercise, GoodExercise, GoodExercise>>),
     AppGrammar(<<X_STR>>, <<BareExercise>>),
     AppGrammar(<<X_STR>>, <<NullPromptExercise>>)}

AppExerciseBlocks ==
    {JDict([exercises |-> x]) : x \in {Absent, JList(<<GoodExercise, BareExercise>>)}}

AppGraderOutputs ==
    {JDict([results |-> r, overall_tip |-> Absent]) :
        r \in {JNull, JList(<<GraderResult(1, "correct")>>)}}

\* what _safe_json_loads makes of the texts call_llm returns
ReplyKinds == {_safe_json_loads(t) : t \in Contents}

AppPayloads(f) ==
    CASE f = "get_reading_block" -> AppReadingBlocks
      [] f = "get_vocab_block" -> AppVocabBlocks
      [] f = "get_grammar_block" -> AppGrammarBlocks
      [] f = "get_grammar_exercises_only" -> AppExerciseBlocks
      [] OTHER -> AppGraderOutputs

\* what a content function comes to: the error of call_llm or of json.loads,
\* or the value _safe_json_loads returns (b when the text holds an object)
ContentOutcomes(f, c) ==
    LET Parsed(kind) ==
            CASE kind = "JSONDecodeError" -> {Raised("JSONDecodeError")}
              [] kind = "dict" -> {Returned(b) : b \in AppPayloads(f)}
              [] OTHER -> {Returned(JStr(<<"a">>))}
    IN  {o \in CallLLMOutcomes(c) : ~o.ok}
        \cup IF \E o \in CallLLMOutcomes(c) : o.ok
             THEN UNION {Parsed(kind) : kind \in ReplyKinds}
             ELSE {}

\* get_daily_plan, given what its calls of get_reading_block, get_vocab_block
\* (made when the vocabulary is rejected) and get_grammar_block come to
get_daily_plan(session_length, r, v, g) ==
    LET n_items == _session_params(session_length).vocab_n
        valid == _validate_vocab(Get(r.val, "vocabulary", JList(<<>>)),
                                 Get(r.val, "reading_text", JStr(<<>>)), n_items).ok
        block == IF valid THEN r.val
                 ELSE JDict([r.val.v EXCEPT
                                !.vocabulary = Get(v.val, "vocabulary", JList(<<>>))])
        normalized == _normalize_plan(JDict(Update(Update(EmptyPlan, block), g.val)))
        checked == _validate_plan(normalized.val)
    IN  IF ~r.ok THEN r
        ELSE IF ~IsDict(r.val) THEN Raised("AttributeError")
        ELSE IF ~valid /\ ~v.ok THEN v
        ELSE IF ~valid /\ ~IsDict(v.val) THEN Raised("AttributeError")
        ELSE IF ~g.ok THEN g
        ELSE IF ~IsDict(g.val) THEN Raised("ValueError")
        ELSE IF ~normalized.ok THEN normalized
        ELSE IF checked \in {"AttributeError", "TypeError"} THEN Raised(checked)
        ELSE IF checked # "ok" THEN Raised("RuntimeError")
        ELSE normalized

\* every settings of a session with every outcome of get_daily_plan under
\* them, for either session length
DailyPlanOutcomes ==
    UNION {{<<c, get_daily_plan(session_length, r, v, g)>> :
               session_length \in {"10", "20"},
               r \in ContentOutcomes("get_reading_block", c),
               v \in ContentOutcomes("get_vocab_block", c),
               g \in ContentOutcomes("get_grammar_block", c)} : c \in AppConfigs}

\* check_answers or check_grammar on items, under settings c
GradeOutcomes(f, items, c) ==
    LET Graded(o) ==
            IF ~o.ok THEN o
            ELSE IF ~IsDict(o.val) THEN Raised("AttributeError")
            ELSE IF f = "check_answers" THEN NormalizeAnswers(o.val)
            ELSE NormalizeGrammarResults(o.val)
    IN  IF PromptItems(items) # "ok" THEN {Raised(PromptItems(items))}
        ELSE {Graded(o) : o \in ContentOutcomes(f, c)}

\* a dict that holds a key
Truthy(d) == IsDict(d) /\ d.v # [k \in DOMAIN d.v |-> Absent]

InitApp ==
    /\ session_plan = Absent /\ session_feedback = Absent
    /\ session_grammar_feedback = Absent
    /\ button = "none" /\ message = "none" /\ uncaught = "none"
    /\ config \in AppConfigs
    /\ LLMCallIdle
    /\ NormIdle /\ ParseIdle /\ ReqIdle /\ VocabIdle /\ GradeIdle

\* the handler ran to its end and showed nothing
Quiet == message' = "none" /\ uncaught' = "none"
Shows(m) == message' = m /\ uncaught' = "none"
\* the error leaves the script run: nothing in app.py catches it
Escapes(e) == message' = "none" /\ uncaught' = e
\* try: ... except RuntimeError as e: st.error(...)
ExceptRuntimeError(e) == IF IsRuntimeError(e) THEN Shows("error") ELSE Escapes(e)

GenerateFullPlan ==
    /\ button' = "Generate full plan"
    /\ session_feedback' = Absent
    /\ session_grammar_feedback' = Absent
    /\ \E e \in DailyPlanOutcomes :
          /\ e[1] = config
          /\ IF e[2].ok
             THEN session_plan' = e[2].val /\ Quiet
             ELSE session_plan' = session_plan /\ ExceptRuntimeError(e[2].err)
    /\ UNCHANGED notAppVars

RegenerateReading ==
    /\ button' = "Regenerate reading"
    /\ IF session_plan = Absent
       THEN Shows("warning") /\ UNCHANGED <<session_plan, session_feedback>>
       ELSE /\ session_feedback' = Absent
            /\ \E o \in ContentOutcomes("get_reading_block", config) :
                  IF ~o.ok
                  THEN session_plan' = session_plan /\ ExceptRuntimeError(o.err)
                  ELSE IF ~IsDict(o.val)
                  THEN session_plan' = session_plan /\ ExceptRuntimeError("ValueError")
                  ELSE session_plan' = JDict(Update(session_plan.v, o.val)) /\ Quiet
    /\ UNCHANGED session_grammar_feedback
    /\ UNCHANGED notAppVars

RegenerateGrammar ==
    /\ button' = "Regenerate grammar"
    /\ IF session_plan = Absent
       THEN Shows("warning") /\ UNCHANGED <<session_plan, session_grammar_feedback>>
       ELSE /\ session_grammar_feedback' = Absent
            /\ \E o \in ContentOutcomes("get_grammar_block", config) :
                  IF ~o.ok
                  THEN session_plan' = session_plan /\ ExceptRuntimeError(o.err)
                  ELSE IF ~IsDict(o.val)
                  THEN session_plan' = session_plan /\ ExceptRuntimeError("ValueError")
                  ELSE session_plan' = JDict(Update(session_plan.v, o.val)) /\ Quiet
    /\ UNCHANGED session_feedback
    /\ UNCHANGED notAppVars

ResetSession ==
    /\ button' = "Reset session"
    /\ session_plan' = Absent
    /\ session_feedback' = Absent
    /\ session_grammar_feedback' = Absent
    /\ Shows("success")
    /\ UNCHANGED notAppVars

\* the button is drawn when the session holds a plan
RegenerateVocabulary ==
    /\ session_plan # Absent
    /\ button' = "Regenerate vocabulary"
    /\ IF Falsy(session_plan.v.reading_text)
       THEN Shows("warning") /\ UNCHANGED <<session_plan, session_feedback>>
       ELSE /\ session_feedback' = Absent
            /\ \E o \in ContentOutcomes("get_vocab_block", config) :
                  IF ~o.ok
                  THEN session_plan' = session_plan /\ ExceptRuntimeError(o.err)
                  ELSE IF ~IsDict(o.val)
                  THEN session_plan' = session_plan /\ ExceptRuntimeError("AttributeError")
                  ELSE /\ session_plan' =
                              JDict([session_plan.v EXCEPT
                                  !.vocabulary = Get(o.val, "vocabulary", JList(<<>>))])
                       /\ Shows("success")
    /\ UNCHANGED session_grammar_feedback
    /\ UNCHANGED notAppVars

\* the button is drawn when the plan holds a grammar
NewGrammarExercises ==
    /\ session_plan # Absent
    /\ Truthy(session_plan.v.grammar)
    /\ button' = "New grammar exercises"
    /\ session_grammar_feedback' = Absent
    /\ IF Falsy(Get(session_plan.v.grammar, "topic", JStr(<<>>)))
       THEN Shows("warning") /\ UNCHANGED session_plan
       ELSE \E o \in ContentOutcomes("get_grammar_exercises_only", config) :
               IF ~o.ok
               THEN session_plan' = session_plan /\ ExceptRuntimeError(o.err)
               ELSE IF ~IsDict(o.val)
               THEN session_plan' = session_plan /\ ExceptRuntimeError("AttributeError")
               ELSE /\ session_plan' =
                           JDict([session_plan.v EXCEPT !.grammar =
                               JDict([session_plan.v.grammar.v EXCEPT
                                   !.exercises = Get(o.val, "exercises", JList(<<>>))])])
                    /\ Shows("success")
    /\ UNCHANGED session_feedback
    /\ UNCHANGED notAppVars

\* the button is enabled when the plan holds a reading text and every
\* question has an answer; no try surrounds the call
CheckMyAnswers ==
    /\ session_plan # Absent
    /\ ~Falsy(session_plan.v.reading_text)
    /\ button' = "Check my answers"
    /\ \E o \in GradeOutcomes("check_answers",
                                Get(session_plan, "questions", JList(<<>>)), config) :
          IF o.ok
          THEN session_feedback' = o.val /\ Quiet
          ELSE session_feedback' = session_feedback /\ Escapes(o.err)
    /\ UNCHANGED <<session_plan, session_grammar_feedback>>
    /\ UNCHANGED notAppVars

\* the button is drawn when the plan holds a grammar; no try surrounds the
\* loop over the exercises and the call
CheckGrammar ==
    /\ session_plan # Absent
    /\ Truthy(session_plan.v.grammar)
    /\ button' = "Check grammar"
    /\ LET exercises == Get(session_plan.v.grammar, "exercises", JList(<<>>))
       IN  IF ~IsList(exercises)
           THEN session_grammar_feedback' = session_grammar_feedback /\ Escapes("TypeError")
           ELSE \E o \in GradeOutcomes("check_grammar", exercises, config) :
                   IF o.ok
                   THEN session_grammar_feedback' = o.val /\ Quiet
                   ELSE /\ session_grammar_feedback' = session_grammar_feedback
                        /\ Escapes(o.err)
    /\ UNCHANGED <<session_plan, session_feedback>>
    /\ UNCHANGED notAppVars

NextApp ==
    \/ GenerateFullPlan
    \/ RegenerateReading
    \/ RegenerateGrammar
    \/ ResetSession
    \/ RegenerateVocabulary
    \/ NewGrammarExercises
    \/ CheckMyAnswers
    \/ CheckGrammar

SpecApp == InitApp /\ [][NextApp]_vars

-----------------------------------------------------------------------------
(* Properties of the normaliser                                            *)

NormReturned == npc \in {"normalized", "twice"}

\* the lists the normaliser starts from (a field that is not a list counts
\* as the empty list)
InGrammar ==
    IF IsDict(nin) /\ IsDict(nin.v.grammar) THEN nin.v.grammar.v ELSE EmptyGrammar
InExamples == IF IsList(InGrammar.examples) THEN InGrammar.examples.v ELSE <<>>
InExercises == IF IsList(InGrammar.exercises) THEN InGrammar.exercises.v ELSE <<>>
OutExamples == nout.val.v.grammar.v.examples.v
OutExercises == nout.val.v.grammar.v.exercises.v

Fillers(n) == [i \in 1..n |-> JStr(FILLER_EXAMPLE)]

\* C5 (as claimed): _normalize_plan never raises, whatever the parsed input
C5_NeverRaises == npc # "raised"

\* C6: normalising the plan _normalize_plan returned gives the same plan back
C6_Idempotent == npc = "twice" => nout2 = nout

\* a run where the first pass padded the examples and appended a placeholder
C6_Witness ==
    /\ npc = "twice"
    /\ Len(CleanExamples(InExamples)) < 3
    /\ Len(InExercises) > 0 /\ InExercises[1] = BareExercise
    /\ OutExercises[1].v.prompt = JStr(<<"a", " ">> \o PLACEHOLDER)

\* res is the exercise orig after the per-exercise loop: the fields orig held
\* are kept, the prompt possibly trimmed and extended by the placeholder
C7_SameExercise(orig, res) ==
    /\ \A k \in {"instruction", "answer", "answer_explanation"} :
           orig.v[k] # Absent => res.v[k] = orig.v[k]
    /\ orig.v.prompt # Absent =>
           \/ res.v.prompt = orig.v.prompt
           \/ /\ IsStr(orig.v.prompt)
              /\ res.v.prompt = JStr(Strip(orig.v.prompt.v) \o <<" ">> \o PLACEHOLDER)
    /\ orig.v.prompt = Absent => res.v.prompt = JStr(DEFAULT_PROMPT)

\* C7: with k kept examples the result is the first min(k,5) of them, in
\* order, then max(0,3-k) fillers; with m dict exercises the result is the
\* first min(m,3) of them, then default exercises, with ids 1, 2, 3
C7_ClampKeepsOrder ==
    NormReturned =>
        LET valid == CleanExamples(InExamples)
            k == Len(valid)
            dicts == KeepDicts(InExercises)
            m == Len(dicts)
        IN  /\ OutExamples = SubSeq(valid, 1, Min(k, 5)) \o Fillers(Max(0, 3 - k))
            /\ Len(OutExercises) = 3
            /\ \A i \in 1..3 :
                   /\ OutExercises[i].v.id = JNum(i)
                   /\ IF i <= m THEN C7_SameExercise(dicts[i], OutExercises[i])
                      ELSE OutExercises[i] = DefaultExercise(i)

\* more than 5 kept examples and more than 3 dict exercises were cut
C7_Witness ==
    /\ NormReturned
    /\ Len(CleanExamples(InExamples)) > 5
    /\ Len(KeepDicts(InExercises)) > 3
    /\ Len(OutExamples) = 5

\* C8 (as claimed): the normalised examples are fillers and trimmed original
\* str entries only; entries that are not str are dropped
C8_OnlyOriginalStrings ==
    NormReturned =>
        \A i \in 1..Len(OutExamples) :
            \/ OutExamples[i] = JStr(FILLER_EXAMPLE)
            \/ \E j \in 1..Len(InExamples) :
                   /\ IsStr(InExamples[j])
                   /\ OutExamples[i] = JStr(Strip(InExamples[j].v))

\* the trimmed str() forms of the entries, blank ones left out
RECURSIVE C8_StrForms(_)
C8_StrForms(list) ==
    IF list = <<>> THEN <<>>
    ELSE LET form == Strip(Str(Head(list)))
         IN  (IF form = <<>> THEN <<>> ELSE <<JStr(form)>>) \o C8_StrForms(Tail(list))

\* C8 (amended): every entry is converted with str() and trimmed, only the
\* entries whose form is blank are dropped; the result is the first five
\* such forms in order, then fillers
C8_StrFormsKept ==
    NormReturned =>
        LET kept == C8_StrForms(InExamples)
            n == Min(Len(kept), 5)
        IN  /\ Len(OutExamples) >= n
            /\ \A i \in 1..n : OutExamples[i] = kept[i]
            /\ \A i \in (n + 1)..Len(OutExamples) : OutExamples[i] = JStr(FILLER_EXAMPLE)

\* a number and a blank str among the examples: the number is kept as "7"
C8_Witness ==
    /\ NormReturned
    /\ \E j \in 1..Len(InExamples) : InExamples[j] = JNum(7)
    /\ \E j \in 1..Len(InExamples) : InExamples[j] = BLANK_STR
    /\ \E i \in 1..Len(OutExamples) : OutExamples[i] = JStr(<<"7">>)

-----------------------------------------------------------------------------
(* Properties of the requests                                              *)

PlanReturned == pc = "done" /\ op = "get_daily_plan"

\* C1 (as claimed): a content function whose first model output does not
\* parse calls the model once more (the repair), so a request that ends with
\* a parse error has made exactly two calls
C1_RepairOnce ==
    (pc = "error" /\ err = "JSONDecodeError") => calls = 2

\* C2 (as claimed): a plan returned by get_daily_plan has exactly 3
\* questions, with ids 1, 2, 3 in that order
C2_ThreeQuestions ==
    PlanReturned =>
        LET questions == result.v.questions.v
        IN  /\ Len(questions) = 3
            /\ \A i \in 1..3 : IsDict(questions[i]) /\ questions[i].v.id = JNum(i)

\* C3 (as claimed): a plan returned by get_daily_plan has between 3 and
\* vocab_n vocabulary items, whose words are non-empty, unique without regard
\* to case, and whole words of a non-empty reading_text
C3_VocabularyValid ==
    PlanReturned =>
        LET vocabulary == result.v.vocabulary.v
            text == result.v.reading_text
            Word(i) == Strip(vocabulary[i].v.word.v)
        IN  /\ 3 <= Len(vocabulary) /\ Len(vocabulary) <= vocab_n
            /\ \A i \in 1..Len(vocabulary) :
                   /\ IsDict(vocabulary[i])
                   /\ IsStr(vocabulary[i].v.word)
                   /\ Word(i) # <<>>
            /\ \A i, j \in 1..Len(vocabulary) : i # j => Lower(Word(i)) # Lower(Word(j))
            /\ (IsStr(text) /\ text.v # <<>>) =>
                   \A i \in 1..Len(vocabulary) : _word_in_text(Word(i), text.v)

\* prompt holds the placeholder in the sense of Python's "in": a str with the
\* substring, or a list with the element
C4_HoldsPlaceholder(prompt) ==
    \/ IsStr(prompt) /\ Contains(prompt.v, PLACEHOLDER)
    \/ IsList(prompt) /\ \E i \in 1..Len(prompt.v) : prompt.v[i] = JStr(PLACEHOLDER)

\* C4: a plan returned by get_daily_plan has 3 to 5 examples and exactly 3
\* exercises with ids 1, 2, 3, each prompt holding "____"; _validate_plan
\* never raises on the plan _normalize_plan returned
C4_GrammarInvariants ==
    /\ (pc = "error" /\ op = "get_daily_plan") => err # "RuntimeError"
    /\ PlanReturned =>
           LET examples == result.v.grammar.v.examples.v
               exercises == result.v.grammar.v.exercises.v
           IN  /\ 3 <= Len(examples) /\ Len(examples) <= 5
               /\ Len(exercises) = 3
               /\ \A i \in 1..3 :
                      /\ exercises[i].v.id = JNum(i)
                      /\ C4_HoldsPlaceholder(exercises[i].v.prompt)

\* a returned plan whose examples were padded and whose first exercise got
\* the placeholder appended
C4_Witness ==
    /\ PlanReturned
    /\ result.v.grammar.v.examples.v[3] = JStr(FILLER_EXAMPLE)
    /\ result.v.grammar.v.exercises.v[1].v.prompt = JStr(<<"a", " ">> \o PLACEHOLDER)

-----------------------------------------------------------------------------
(* Properties of _safe_json_loads                                          *)

RECURSIVE C9_Lines(_)
C9_Lines(t) ==
    LET nl == Find(t, "\n")
    IN  IF nl = 0 THEN <<t>>
        ELSE <<SubSeq(t, 1, nl - 1)>> \o C9_Lines(SubSeq(t, nl + 1, Len(t)))

RECURSIVE C9_Join(_)
C9_Join(lines) ==
    IF lines = <<>> THEN <<>>
    ELSE IF Len(lines) = 1 THEN lines[1]
    ELSE lines[1] \o <<"\n">> \o C9_Join(Tail(lines))

C9_IsFenceLine(line) == LStrip(line) # <<>> /\ Head(LStrip(line)) = "~"

\* the extractor of the claim: trimmed, fence-marker lines dropped when the
\* text starts with one, then the first "{" to the last "}"
C9_Claimed(text) ==
    LET t == Strip(text)
        d == IF t # <<>> /\ Head(t) = "~"
             THEN Strip(C9_Join(SelectSeq(C9_Lines(t), LAMBDA l : ~C9_IsFenceLine(l))))
             ELSE t
        start == Find(d, "{")
        end == RFind(d, "}")
    IN  IF start # 0 /\ end # 0 /\ end > start THEN SubSeq(d, start, end) ELSE d

\* C9 (as claimed): the candidate is the trimmed text without its
\* fence-marker lines, cut from the first "{" to the last "}" when the last
\* follows the first
C9_ExtractorDefences == ppc # "start" => cand = C9_Claimed(raw)

\* the scan of the claim: a raw newline or carriage return inside a string
\* literal becomes a space, everything else passes through
RECURSIVE C10_Scan(_, _, _)
C10_Scan(t, in_string, escape) ==
    IF t = <<>> THEN <<>>
    ELSE LET c == Head(t)
         IN  IF ~in_string THEN <<c>> \o C10_Scan(Tail(t), c = "\"", FALSE)
             ELSE IF escape THEN <<c>> \o C10_Scan(Tail(t), TRUE, FALSE)
             ELSE IF c = "\\" THEN <<c>> \o C10_Scan(Tail(t), TRUE, TRUE)
             ELSE IF c = "\"" THEN <<c>> \o C10_Scan(Tail(t), FALSE, FALSE)
             ELSE IF c \in {"\n", "\r"} THEN <<" ">> \o C10_Scan(Tail(t), TRUE, FALSE)
             ELSE <<c>> \o C10_Scan(Tail(t), TRUE, FALSE)

C10_Sanitize(t) == C10_Scan(t, FALSE, FALSE)

\* C10 (as claimed): a candidate that is valid JSON once the raw newlines
\* and carriage returns inside its string literals are replaced by spaces is
\* parsed successfully
C10_RawNewlinesTolerated ==
    (ppc # "start" /\ json_loads(C10_Sanitize(cand)) # "JSONDecodeError")
        => loaded # "JSONDecodeError"

-----------------------------------------------------------------------------
(* Properties of the vocabulary validation                                 *)

\* the word of an item after trimming, <<>> when the item holds no string
C11_Word(item) ==
    IF IsDict(item) /\ IsStr(item.v.word) THEN Strip(item.v.word.v) ELSE <<>>

\* w stands in text as a whole word, whatever the case of the letters: the
\* character before its first and the one after its last (if any) lie on
\* the other side of a word boundary
C11_Occurs(w, text) ==
    \E i \in 1..(Len(text) - Len(w) + 1) :
        LET j == i + Len(w)
        IN  /\ w # <<>>
            /\ \A k \in 1..Len(w) : LowerChar(text[i + k - 1]) = LowerChar(w[k])
            /\ IsWordChar(w[1]) # (i > 1 /\ IsWordChar(text[i - 1]))
            /\ IsWordChar(w[Len(w)]) # (j <= Len(text) /\ IsWordChar(text[j]))

\* a list of exactly n dicts whose words are non-empty and pairwise distinct
C11_WellFormed(vocab, n) ==
    /\ IsList(vocab)
    /\ Len(vocab.v) = n
    /\ \A i \in 1..Len(vocab.v) :
           /\ IsDict(vocab.v[i])
           /\ C11_Word(vocab.v[i]) # <<>>
    /\ \A i, j \in 1..Len(vocab.v) :
           i # j => Lower(C11_Word(vocab.v[i])) # Lower(C11_Word(vocab.v[j]))

C11_Missing(vocab, text) ==
    {i \in 1..Len(vocab.v) : ~(IsStr(text) /\ C11_Occurs(C11_Word(vocab.v[i]), text.v))}

C11_Valid(vocab, text, n) ==
    /\ C11_WellFormed(vocab, n)
    /\ text \notin {JNull, JStr(<<>>)} => C11_Missing(vocab, text) = {}

\* C11: _validate_vocab returns exactly when vocab is a list of n dicts with
\* non-empty, pairwise distinct (whatever the case) words that each stand in
\* a non-empty reading text as whole words; otherwise it raises, and the
\* error for a word the text lacks names that word
C11_ValidateVocab ==
    vpc \in {"returned", "raised"} =>
        /\ (vpc = "returned") <=> C11_Valid(vin.vocab, vin.reading_text, vin.n_exact)
        /\ (vout.err = "Vocabulary word not found in reading text") =>
               \E i \in C11_Missing(vin.vocab, vin.reading_text) :
                   vout.word = C11_Word(vin.vocab.v[i])
        /\ (/\ C11_WellFormed(vin.vocab, vin.n_exact)
            /\ IsStr(vin.reading_text)
            /\ vpc = "raised") =>
               LET first == CHOOSE i \in C11_Missing(vin.vocab, vin.reading_text) :
                                \A k \in C11_Missing(vin.vocab, vin.reading_text) : i <= k
               IN  /\ vout.err = "Vocabulary word not found in reading text"
                   /\ vout.word = C11_Word(vin.vocab.v[first])

\* a vocabulary of distinct words was validated against the text and one of
\* them, a word the text only holds as part of another, was named
C11_Witness ==
    /\ vpc = "raised"
    /\ vin.reading_text = JStr(VOCAB_TEXT)
    /\ C11_WellFormed(vin.vocab, vin.n_exact)
    /\ vin.n_exact = MaxVocab
    /\ vout.word = <<"c">>

-----------------------------------------------------------------------------
(* Properties of the grading functions                                     *)

\* the ids of the dicts of a list that hold one
C12_Ids(list) ==
    {list[i].v.id : i \in {j \in 1..Len(list) :
                               IsDict(list[j]) /\ list[j].v.id \notin {Absent, JNull}}}

\* C12: the results check_answers and check_grammar return cover exactly
\* the ids of the items they were given, one result for each id
C12_SameIdSet ==
    gpc = "returned" =>
        LET results == gout.val.v.results.v
            items == IF Falsy(gin.items) THEN <<>> ELSE gin.items.v
        IN  /\ C12_Ids(results) = C12_Ids(items)
            /\ Len(results) = Cardinality(C12_Ids(items))

-----------------------------------------------------------------------------
(* Properties of call_llm                                                  *)

C13_Done == lpc \in {"returned", "raised"}

C13_Safety ==
    /\ posts <= retries + 1
    /\ Len(responses) = posts
    /\ sleeps = [i \in 1..Len(sleeps) |-> i]
    /\ lpc = "post" => Len(sleeps) = posts
    /\ lpc = "sleep" => Len(sleeps) = posts - 1
    /\ \A i \in 1..(posts - 1) : responses[i] # "ok"
    /\ lpc = "returned" =>
           /\ responses[posts] = "ok"
           /\ lout.ok
           /\ Len(sleeps) = posts - 1
    /\ (lpc = "raised" /\ posts > 0) =>
           /\ posts = retries + 1
           /\ Len(sleeps) = retries
           /\ ~lout.ok
           /\ lout.err = responses[posts]
           /\ lout.err = last_err

\* C13: call_llm posts at most retries + 1 times, returns the content of
\* the first response that holds one and posts no more, sleeps 1, 2, 3, ...
\* half seconds between failed attempts, raises the last error when the
\* last attempt fails, and always ends with a value or an error
C13_BoundedRetries == []C13_Safety /\ <>C13_Done

\* two attempts failed, each followed by its sleep, and the third returned
C13_Witness ==
    /\ lpc = "returned"
    /\ responses = <<"HTTPError", "ConnectionError", "ok">>
    /\ sleeps = <<1, 2>>

\* the API key, the endpoint or the model is absent, or the endpoint does
\* not begin with a scheme (letters, then a colon)
C14_BadConfig(c) ==
    \/ Falsy(c.API_KEY) \/ Falsy(c.API_URL) \/ Falsy(c.MODEL)
    \/ ~\E k \in 2..Len(c.API_URL.v) :
           /\ c.API_URL.v[k] = ":"
           /\ \A i \in 1..(k - 1) : \E j \in 1..26 : c.API_URL.v[i] = LOWER[j]

\* C14: with such settings call_llm raises a configuration error before
\* any requests.post, and nothing is retried
C14_ConfigErrorFirst ==
    (lpc # "start" /\ C14_BadConfig(config)) =>
        /\ lpc = "raised"
        /\ lout = Raised("LLMConfigError")
        /\ posts = 0
        /\ sleeps = <<>>

-----------------------------------------------------------------------------
(* Properties of the vocabulary regeneration of get_daily_plan             *)

C16_Daily == op = "get_daily_plan"

\* the vocabulary of the reading block passes the validation of C11
C16_VocabValid(rb) ==
    C11_Valid(Get(rb, "vocabulary", JList(<<>>)), Get(rb, "reading_text", JStr(<<>>)),
              vocab_n)

\* two reading blocks that differ in their vocabulary at most
C16_SameButVocabulary(a, b) ==
    \A k \in DOMAIN a.v \ {"vocabulary"} : a.v[k] = b.v[k]

C16_Step ==
    \* get_vocab_block is called right after get_reading_block returned, and
    \* exactly when the vocabulary of the reading block is rejected
    /\ (C16_Daily /\ blk' = "get_vocab_block" /\ blk # blk') =>
           blk = "get_reading_block"
    /\ (C16_Daily /\ blk = "get_reading_block" /\ blk # blk' /\ pc' = "call") =>
           ((blk' = "get_vocab_block") <=> ~C16_VocabValid(reading_block'))
    \* get_daily_plan calls get_reading_block once, at its start
    /\ (C16_Daily /\ blk' = "get_reading_block") => blk = "get_reading_block"
    \* the block get_vocab_block returned replaces the vocabulary only
    /\ (C16_Daily /\ blk = "get_vocab_block" /\ pc' # "idle") =>
           /\ blk' \in {"get_vocab_block", "get_grammar_block"}
           /\ C16_SameButVocabulary(reading_block, reading_block')
    /\ (C16_Daily /\ blk = "get_grammar_block" /\ pc' # "idle") =>
           /\ blk' = blk
           /\ reading_block' = reading_block
    \* the plan returned holds the fields of the reading block
    /\ (C16_Daily /\ pc' = "done") =>
           /\ result'.v.reading_topic = Get(reading_block', "reading_topic", JStr(<<>>))
           /\ result'.v.reading_text = Get(reading_block', "reading_text", JStr(<<>>))
           /\ result'.v.questions = Get(reading_block', "questions", JList(<<>>))
           /\ C16_VocabValid(reading_block') =>
                  result'.v.vocabulary = reading_block'.v.vocabulary

-----------------------------------------------------------------------------
(* Properties of the session of app.py                                     *)

\* the hard structural invariants of a plan
C15_HardInvariants(p) ==
    /\ IsList(p.v.questions)
    /\ Len(p.v.questions.v) = 3
    /\ \A i \in 1..3 :
           IsDict(p.v.questions.v[i]) /\ p.v.questions.v[i].v.id = JNum(i)
    /\ IsDict(p.v.grammar)
    /\ IsList(p.v.grammar.v.examples)
    /\ 3 <= Len(p.v.grammar.v.examples.v)
    /\ Len(p.v.grammar.v.examples.v) <= 5
    /\ IsList(p.v.grammar.v.exercises)
    /\ Len(p.v.grammar.v.exercises.v) = 3
    /\ \A i \in 1..3 :
           LET ex == p.v.grammar.v.exercises.v[i]
           IN  /\ IsDict(ex)
               /\ ex.v.id = JNum(i)
               /\ IsStr(ex.v.prompt)
               /\ Contains(ex.v.prompt.v, PLACEHOLDER)

\* C15: whatever buttons were clicked, the plan the session holds has 3
\* questions with ids 1..3, 3 to 5 grammar examples and exactly 3 exercises
\* with ids 1..3 whose prompts each contain "____"
C15_SessionPlanValid ==
    session_plan # Absent => C15_HardInvariants(session_plan)

\* configuration errors, transport errors after the retries, JSON parse
\* errors and invariant errors
C17_Classes ==
    {"LLMConfigError", "RuntimeError", "JSONDecodeError", "MissingSchema"}
    \cup AttemptErrors

\* C17: no such error leaves the handler of the button that was clicked
C17_FailuresReported == uncaught \notin C17_Classes

====
